---- MODULE Spec2Model ----
(***************************************************************************)
(* attune: a System of named services with declared dependencies.          *)
(* Model of src/src/index.js: the graph resolver (dependsOn, depEdges,     *)
(* edges, sortDeps over toposort.array), the System constructor, and the   *)
(* start / stop / toString methods.                                        *)
(***************************************************************************)
EXTENDS Integers, Sequences, FiniteSets, TLC

(* ---------------------------------------------------------------------- *)
(* Bounds                                                                  *)
(* ---------------------------------------------------------------------- *)

\* longest depends array drawn for a configuration record
MaxDeps == 2

(* ---------------------------------------------------------------------- *)
(* Configuration space                                                     *)
(* ---------------------------------------------------------------------- *)

\* Object.keys(config), in insertion order (the keys of the test's conf)
Keys == <<"x", "y", "sum">>

Names == {Keys[i] : i \in 1..Len(Keys)}

\* a name that is no key of the configuration
Ghost == "ghost"

DepNames == Names \cup {Ghost}

\* the value null of a stopped service; started values are naturals
Null == -1

\* the field val of a record, NoVal when the record has none
NoVal == -2

ConfVal == [x |-> 1, y |-> 2, sum |-> NoVal]

SeqsUpTo(S, n) == UNION {[1..k -> S] : k \in 0..n}

IsDistinct(s) == \A i, j \in 1..Len(s) : i # j => s[i] # s[j]

\* the forms of a record's depends: absent, a string (the name of a
\* service or of none), an array of service names
DependsForms ==
    {[kind |-> "none", val |-> <<>>]}
    \cup {[kind |-> "string", val |-> <<d>>] : d \in DepNames}
    \cup {[kind |-> "array", val |-> a] :
            a \in {s \in SeqsUpTo(Names, MaxDeps) : IsDistinct(s)}}

\* the README's use of depends: a string naming a service for one
\* dependency, an array for several
PlainForms ==
    {d \in DependsForms :
        /\ d.kind = "array" => Len(d.val) >= 2
        /\ d.kind = "string" => d.val[1] \in Names}

\* most configuration records that hold a function-valued field
MaxFnFields == 1

\* configurations: every key has its val and some depends; the records of
\* f also hold a function-valued field
ConfigSpace ==
    {[k \in Names |->
        [val |-> ConfVal[k], depends |-> d[k], fn |-> (k \in f)]] :
        d \in [Names -> DependsForms],
        f \in {g \in SUBSET Names : Cardinality(g) <= MaxFnFields}}

\* configurations of data only whose depends are in the README's forms
PlainConfigs ==
    {[k \in Names |->
        [val |-> ConfVal[k], depends |-> d[k], fn |-> FALSE]] :
        d \in [Names -> PlainForms]}

\* behaviours: every key has a start function, some have a stop function
FnsSpace == [Names -> [stop : BOOLEAN]]

(* ---------------------------------------------------------------------- *)
(* Graph resolver                                                          *)
(* ---------------------------------------------------------------------- *)

\* only an array is taken for a depends
dependsOnArrayOnly(conf, service) ==
    IF conf[service].depends.kind = "array"
    THEN conf[service].depends.val
    ELSE <<>>

dependsOn(conf, service) ==
    IF conf[service].depends.kind = "string"
    THEN conf[service].depends.val
    ELSE IF conf[service].depends.kind = "array"
         THEN conf[service].depends.val
         ELSE <<>>

\* the edges point from the service to its dependency
depEdgesReversed(conf, service) ==
    [i \in 1..Len(dependsOn(conf, service)) |->
        <<service, dependsOn(conf, service)[i]>>]

depEdges(conf, service) ==
    [i \in 1..Len(dependsOn(conf, service)) |->
        <<dependsOn(conf, service)[i], service>>]

RECURSIVE FlatMapEdges(_, _)
FlatMapEdges(conf, i) ==
    IF i > Len(Keys) THEN <<>>
    ELSE depEdges(conf, Keys[i]) \o FlatMapEdges(conf, i + 1)

isNotEmpty(xs) == Len(xs) > 0

edges(conf) == SelectSeq(FlatMapEdges(conf, 1), isNotEmpty)

\* toposort.array is the npm package toposort, called by sortDeps: a
\* depth-first visit from the last node to the first that fills the result
\* from the back, and throws on a node met again on the current path and
\* on an edge that names no node.

\* toposort: outgoingEdges.get(node), children in edge insertion order
RECURSIVE Outgoing(_, _, _)
Outgoing(es, node, i) ==
    IF i > Len(es) THEN <<>>
    ELSE LET rest == Outgoing(es, node, i + 1)
             c == es[i][2]
         IN IF es[i][1] = node
            THEN <<c>> \o SelectSeq(rest, LAMBDA r : r # c)
            ELSE rest

IndexOf(nodes, node) == CHOOSE i \in 1..Len(nodes) : nodes[i] = node

\* toposort: visit(node, i, predecessors) over the accumulator
\* t = [sorted, cursor, visited, err]
RECURSIVE visit(_, _, _, _, _)
RECURSIVE visitChildren(_, _, _, _, _, _)
visit(nodes, es, node, preds, t) ==
    IF t.err # "none" THEN t
    ELSE IF node \in preds THEN [t EXCEPT !.err = "cyclic"]
    ELSE IF \A i \in 1..Len(nodes) : nodes[i] # node
         THEN [t EXCEPT !.err = "unknown"]
    ELSE IF IndexOf(nodes, node) \in t.visited THEN t
    ELSE LET t1 == [t EXCEPT !.visited = @ \cup {IndexOf(nodes, node)}]
             out == Outgoing(es, node, 1)
             t2 == visitChildren(nodes, es, out, Len(out),
                                 preds \cup {node}, t1)
         IN IF t2.err # "none" THEN t2
            ELSE [t2 EXCEPT !.sorted[t2.cursor] = node,
                            !.cursor = t2.cursor - 1]

visitChildren(nodes, es, out, i, preds, t) ==
    IF i = 0 THEN t
    ELSE visitChildren(nodes, es, out, i - 1, preds,
                       visit(nodes, es, out[i], preds, t))

RECURSIVE toposortLoop(_, _, _, _)
toposortLoop(nodes, es, i, t) ==
    IF i = 0 THEN t
    ELSE toposortLoop(nodes, es, i - 1,
            IF i \in t.visited THEN t ELSE visit(nodes, es, nodes[i], {}, t))

\* toposort.array(nodes, edges): [err, sorted]
toposort(nodes, es) ==
    IF \E i \in 1..Len(es) :
          \/ \A j \in 1..Len(nodes) : nodes[j] # es[i][1]
          \/ \A j \in 1..Len(nodes) : nodes[j] # es[i][2]
    THEN [err |-> "unknown", sorted |-> <<>>]
    ELSE LET t == toposortLoop(nodes, es, Len(nodes),
                     [sorted |-> [i \in 1..Len(nodes) |-> ""],
                      cursor |-> Len(nodes),
                      visited |-> {},
                      err |-> "none"])
         IN [err |-> t.err,
             sorted |-> IF t.err = "none" THEN t.sorted ELSE <<>>]

sortDeps(conf) == toposort(Keys, edges(conf))

nullifyVals(conf) == [k \in Names |-> Null]

(* ---------------------------------------------------------------------- *)
(* Validation                                                              *)
(* ---------------------------------------------------------------------- *)

isFn(rec) == rec.fn

\* the fields of a record are not looked at
checkConfigNoFields(conf) == TRUE

\* TRUE when checkConfig returns, FALSE when it throws: the records drawn
\* are objects and their depends are strings or arrays, so only the
\* function-valued field can fail
checkConfig(conf) == \A k \in Names : ~isFn(conf[k])

\* every entry drawn is an object with a start function and, when it has
\* one, a stop function
checkFns(f) == \A k \in Names : f[k].stop \in BOOLEAN

check(conf, f) == checkConfig(conf) /\ checkFns(f)

(* ---------------------------------------------------------------------- *)
(* State                                                                   *)
(* ---------------------------------------------------------------------- *)

VARIABLES
    pc,        \* "new": before new System(..); "ready"; "failed": it threw
    config,    \* the configuration passed in, this.config once assigned
    fns,       \* the functions object passed in, this._fns once assigned
    fields,    \* the instance fields assigned so far
    order,     \* this._order
    services,  \* this._services
    accessors, \* the keys that have a getter defined on the instance
    call,      \* the latest call made on the System
    log,       \* what the latest call did, in order
    thrown     \* the error the latest call threw, NoErr when it returned

vars == <<pc, config, fns, fields, order, services, accessors,
          call, log, thrown>>

NoCall == [op |-> "none", name |-> "", validate |-> FALSE]

NoErr == [err |-> "none", by |-> ""]

\* the errors of the constructor: check's TypeError, toposort's Error
TypeError == [err |-> "type", by |-> ""]

SortError(kind) == [err |-> kind, by |-> ""]

\* the error thrown by a callback of service
CallbackError(service) == [err |-> "callback", by |-> service]

\* the values are initialised and the getters defined before the sort
SystemNewSortLast(conf, f, validate) ==
    IF validate /\ ~check(conf, f)
    THEN [pc |-> "failed", fields |-> {}, order |-> <<>>,
          services |-> <<>>, accessors |-> {}, err |-> TypeError]
    ELSE IF sortDeps(conf).err # "none"
    THEN [pc |-> "failed", fields |-> {"config", "_services", "_fns"},
          order |-> <<>>, services |-> nullifyVals(conf),
          accessors |-> Names, err |-> SortError(sortDeps(conf).err)]
    ELSE [pc |-> "ready",
          fields |-> {"config", "_order", "_services", "_fns"},
          order |-> sortDeps(conf).sorted,
          services |-> nullifyVals(conf),
          accessors |-> Names, err |-> NoErr]

\* the instance as the constructor leaves it, given where it got to:
\* an unassigned _order or _services is the empty sequence
SystemNew(conf, f, validate) ==
    IF validate /\ ~check(conf, f)
    THEN [pc |-> "failed", fields |-> {}, order |-> <<>>,
          services |-> <<>>, accessors |-> {}, err |-> TypeError]
    ELSE IF sortDeps(conf).err # "none"
    THEN [pc |-> "failed", fields |-> {"config"}, order |-> <<>>,
          services |-> <<>>, accessors |-> {},
          err |-> SortError(sortDeps(conf).err)]
    ELSE [pc |-> "ready",
          fields |-> {"config", "_order", "_services", "_fns"},
          order |-> sortDeps(conf).sorted,
          services |-> nullifyVals(conf),
          accessors |-> Names, err |-> NoErr]

\* before construction: a configuration and its functions, no instance
InitNew ==
    /\ pc = "new"
    /\ config \in ConfigSpace
    /\ fns = [k \in Names |-> [stop |-> TRUE]]
    /\ fields = {}
    /\ order = <<>>
    /\ services = <<>>
    /\ accessors = {}
    /\ call = NoCall
    /\ log = <<>>
    /\ thrown = NoErr

\* new System(config, fns, validate)
Construct(validate) ==
    /\ pc = "new"
    /\ LET c == SystemNew(config, fns, validate)
       IN /\ pc' = c.pc
          /\ fields' = c.fields
          /\ order' = c.order
          /\ services' = c.services
          /\ accessors' = c.accessors
          /\ thrown' = c.err
          /\ log' = <<>>
    /\ call' = [op |-> "new", name |-> "", validate |-> validate]
    /\ UNCHANGED <<config, fns>>

NextNew == \E validate \in BOOLEAN : Construct(validate)

SpecNew == InitNew /\ [][NextNew]_vars

(* ---------------------------------------------------------------------- *)
(* Callbacks                                                               *)
(* ---------------------------------------------------------------------- *)

\* what a start function does when called: return its value ("ok"),
\* return null ("null") or throw ("throw")
StartOutcomes == {"ok", "null", "throw"}

\* what a stop function does when called: return ("ok") or throw ("throw")
StopOutcomes == {"ok", "throw"}

RECURSIVE SumVals(_, _)
SumVals(deps, S) ==
    IF S = {} THEN 0
    ELSE LET d == CHOOSE e \in S : TRUE
         IN (IF deps[d] = Null THEN 0 ELSE deps[d]) + SumVals(deps, S \ {d})

\* the value a start function returns: the record's val (startX, startY)
\* or the sum of the dependencies handed in (startSum)
startFn(conf, service, deps) ==
    IF conf[service].val # NoVal
    THEN conf[service].val
    ELSE SumVals(deps, DOMAIN deps)

\* the accumulator is dropped: only the last dependency is handed in
collectDepsLastOnly(deps, svcs) ==
    [d \in {deps[i] : i \in {Len(deps)} \cap (1..Len(deps))} |-> svcs[d]]

collectDeps(deps, svcs) ==
    [d \in {deps[i] : i \in 1..Len(deps)} |-> svcs[d]]

(* ---------------------------------------------------------------------- *)
(* start and stop                                                          *)
(* ---------------------------------------------------------------------- *)

\* one entry of the log: a callback invocation ("start", "stop") or an
\* assignment to this._services[svc] ("set"), with the values map as it
\* was right before
Event(ev, svc, deps, val, before, threw) ==
    [ev |-> ev, svc |-> svc, deps |-> deps, val |-> val,
     before |-> before, threw |-> threw]

\* the check is missing: the start function is called every time
isStoppedAlways(svcs, service) == TRUE

\* the check is on falsiness: !this._services[service]
isStoppedFalsy(svcs, service) == svcs[service] = Null \/ svcs[service] = 0

\* this._services[service] === null
isStopped(svcs, service) == svcs[service] = Null

\* the check is missing: a stopped service is stopped again
isStartedAlways(svcs, service) == TRUE

\* the check is on truthiness: if (this._services[service])
isStartedTruthy(svcs, service) == svcs[service] # Null /\ svcs[service] # 0

\* this._services[service] !== null
isStarted(svcs, service) == svcs[service] # Null

\* the start function is called in a try block that drops the error
startThrewSwallowed(m, inv, service) ==
    [m EXCEPT !.log = Append(@, inv)]

\* the start function threw: the assignment to this._services[service]
\* does not happen and the error leaves start
startThrew(m, inv, service) ==
    [m EXCEPT !.log = Append(@, inv), !.thrown = CallbackError(service)]

\* the value is nulled in a finally block
stopThrewNulled(m, inv, service) ==
    [m EXCEPT !.log = Append(@, inv), !.thrown = CallbackError(service),
              !.services[service] = Null]

\* the stop function threw: this._services[service] = null is not reached
\* and the error leaves stop
stopThrew(m, inv, service) ==
    [m EXCEPT !.log = Append(@, inv), !.thrown = CallbackError(service)]

\* m = [services, order, log, thrown]: the instance during a call
RECURSIVE start(_, _, _, _, _)
RECURSIVE startEach(_, _, _, _, _, _)
start(conf, f, o, m, service) ==
    IF m.thrown # NoErr THEN m
    ELSE LET deps == dependsOn(conf, service)
             m1 == startEach(conf, f, o, m, deps, 1)
         IN IF m1.thrown # NoErr THEN m1
            ELSE IF isStopped(m1.services, service)
            THEN LET arg == collectDeps(deps, m1.services)
                     ret == IF o[service] = "ok"
                            THEN startFn(conf, service, arg)
                            ELSE Null
                     inv == Event("start", service, arg, ret,
                                  m1.services, o[service] = "throw")
                 IN IF o[service] = "throw"
                    THEN startThrew(m1, inv, service)
                    ELSE [m1 EXCEPT
                            !.log = @ \o <<inv,
                                Event("set", service, arg, ret,
                                      m1.services, FALSE)>>,
                            !.services[service] = ret]
            ELSE m1

\* xs.forEach(service => this.start(service)), from index i on
startEach(conf, f, o, m, xs, i) ==
    IF i > Len(xs) \/ m.thrown # NoErr THEN m
    ELSE startEach(conf, f, o, start(conf, f, o, m, xs[i]), xs, i + 1)

startAll(conf, f, o, m) == startEach(conf, f, o, m, m.order, 1)

\* stopping a service also nulls its dependencies
stopCascading(conf, f, o, m, service) ==
    IF m.thrown # NoErr THEN m
    ELSE LET deps == dependsOn(conf, service)
             arg == collectDeps(deps, m.services)
             inv == Event("stop", service, arg, m.services[service],
                          m.services, o[service] = "throw")
             set == Event("set", service, arg, Null, m.services, FALSE)
             nulled == [k \in Names |->
                          IF k = service \/ k \in DOMAIN arg
                          THEN Null ELSE m.services[k]]
         IN IF isStarted(m.services, service)
            THEN IF f[service].stop
                 THEN IF o[service] = "throw"
                      THEN stopThrew(m, inv, service)
                      ELSE [m EXCEPT !.log = @ \o <<inv, set>>,
                                     !.services = nulled]
                 ELSE [m EXCEPT !.log = Append(@, set),
                                !.services = nulled]
            ELSE m

\* the value is nulled only next to the call of a stop function
stopOnlyWithCallback(conf, f, o, m, service) ==
    IF m.thrown # NoErr THEN m
    ELSE LET deps == dependsOn(conf, service)
             arg == collectDeps(deps, m.services)
             inv == Event("stop", service, arg, m.services[service],
                          m.services, o[service] = "throw")
             set == Event("set", service, arg, Null, m.services, FALSE)
         IN IF isStarted(m.services, service) /\ f[service].stop
            THEN IF o[service] = "throw"
                 THEN stopThrew(m, inv, service)
                 ELSE [m EXCEPT !.log = @ \o <<inv, set>>,
                                !.services[service] = Null]
            ELSE m

stop(conf, f, o, m, service) ==
    IF m.thrown # NoErr THEN m
    ELSE LET deps == dependsOn(conf, service)
             arg == collectDeps(deps, m.services)
             inv == Event("stop", service, arg, m.services[service],
                          m.services, o[service] = "throw")
             set == Event("set", service, arg, Null, m.services, FALSE)
         IN IF isStarted(m.services, service)
            THEN IF f[service].stop
                 THEN IF o[service] = "throw"
                      THEN stopThrew(m, inv, service)
                      ELSE [m EXCEPT !.log = @ \o <<inv, set>>,
                                     !.services[service] = Null]
                 ELSE [m EXCEPT !.log = Append(@, set),
                                !.services[service] = Null]
            ELSE m

RECURSIVE stopEach(_, _, _, _, _, _)
stopEach(conf, f, o, m, xs, i) ==
    IF i > Len(xs) \/ m.thrown # NoErr THEN m
    ELSE stopEach(conf, f, o, stop(conf, f, o, m, xs[i]), xs, i + 1)

\* Array.prototype.reverse: reverses the array in place and returns it
reverse(xs) == [i \in 1..Len(xs) |-> xs[Len(xs) + 1 - i]]

stopAll(conf, f, o, m) ==
    LET m1 == [m EXCEPT !.order = reverse(m.order)]
    IN stopEach(conf, f, o, m1, m1.order, 1)

Machine == [services |-> services, order |-> order,
            log |-> <<>>, thrown |-> NoErr]

Apply(m, op, name) ==
    /\ services' = m.services
    /\ order' = m.order
    /\ log' = m.log
    /\ thrown' = m.thrown
    /\ call' = [op |-> op, name |-> name, validate |-> FALSE]
    /\ UNCHANGED <<pc, config, fns, fields, accessors>>

\* the services start(name) may call the start function of
RECURSIVE Reach(_, _, _)
Reach(conf, S, n) ==
    IF n = 0 THEN S
    ELSE Reach(conf,
            S \cup UNION {{dependsOn(conf, d)[i] :
                             i \in 1..Len(dependsOn(conf, d))} : d \in S},
            n - 1)

\* the services among S whose start function a call can reach
ToStart(svcs, S) == {k \in S : isStopped(svcs, k)}

\* the services among S whose stop function a call can reach
ToStop(f, svcs, S) == {k \in S : isStarted(svcs, k) /\ f[k].stop}

\* sys.start(name); o is what each start function does in this call
Start(name) ==
    /\ pc = "ready"
    /\ \E o \in [ToStart(services, Reach(config, {name}, Len(Keys)))
                    -> StartOutcomes] :
          Apply(start(config, fns, o, Machine, name), "start", name)

\* sys.start()
StartAll ==
    /\ pc = "ready"
    /\ \E o \in [ToStart(services, Names) -> StartOutcomes] :
          Apply(startAll(config, fns, o, Machine), "start", "")

\* sys.stop(name); o is what each stop function does in this call
Stop(name) ==
    /\ pc = "ready"
    /\ \E o \in [ToStop(fns, services, {name}) -> StopOutcomes] :
          Apply(stop(config, fns, o, Machine, name), "stop", name)

\* sys.stop()
StopAll ==
    /\ pc = "ready"
    /\ \E o \in [ToStop(fns, services, Names) -> StopOutcomes] :
          Apply(stopAll(config, fns, o, Machine), "stop", "")

\* the getter hands out the value the service had when it was defined
getterSnapshot(conf, svcs, k) == nullifyVals(conf)[k]

\* sys[k]: the getter defined for key k, get: function() { return
\* this._services[k] }
getter(conf, svcs, k) == svcs[k]

\* Object.entries(this._services): the keys in insertion order, which is
\* that of Object.keys(config)
entries(svcs) == [i \in 1..Len(Keys) |-> <<Keys[i], svcs[Keys[i]]>>]

\* xs.join(', ') as the sequence of the pieces of the string
RECURSIVE join(_, _)
join(xs, sep) ==
    IF xs = <<>> THEN <<>>
    ELSE IF Len(xs) = 1 THEN xs
    ELSE <<xs[1], sep>> \o join(Tail(xs), sep)

\* every service is listed, running or not
toStringUnfiltered(svcs) ==
    LET names == [i \in 1..Len(entries(svcs)) |-> entries(svcs)[i][1]]
        started == join(names, ", ")
    IN <<"[object System">>
         \o (IF started # <<>> THEN <<"{">> \o started \o <<"}">> ELSE <<>>)
         \o <<"]">>

\* the filter is on truthiness: ([k, v]) => v
toStringTruthy(svcs) ==
    LET kept == SelectSeq(entries(svcs), LAMBDA e : e[2] # Null /\ e[2] # 0)
        names == [i \in 1..Len(kept) |-> kept[i][1]]
        started == join(names, ", ")
    IN <<"[object System">>
         \o (IF started # <<>> THEN <<"{">> \o started \o <<"}">> ELSE <<>>)
         \o <<"]">>

\* sys.toString(), as the sequence of the pieces of the string
toString(svcs) ==
    LET kept == SelectSeq(entries(svcs), LAMBDA e : e[2] # Null)
        names == [i \in 1..Len(kept) |-> kept[i][1]]
        started == join(names, ", ")
    IN <<"[object System">>
         \o (IF started # <<>> THEN <<"{">> \o started \o <<"}">> ELSE <<>>)
         \o <<"]">>

\* a System whose construction returned, no call made on it yet
Init ==
    /\ pc = "ready"
    /\ config \in PlainConfigs
    /\ SystemNew(config, [k \in Names |-> [stop |-> TRUE]], TRUE).pc = "ready"
    /\ fns \in FnsSpace
    /\ fields = SystemNew(config, fns, TRUE).fields
    /\ order = SystemNew(config, fns, TRUE).order
    /\ services = SystemNew(config, fns, TRUE).services
    /\ accessors = SystemNew(config, fns, TRUE).accessors
    /\ call = [op |-> "new", name |-> "", validate |-> TRUE]
    /\ log = <<>>
    /\ thrown = NoErr

Next ==
    \/ \E name \in Names : Start(name)
    \/ StartAll
    \/ \E name \in Names : Stop(name)
    \/ StopAll

Spec == Init /\ [][Next]_vars

(* ---------------------------------------------------------------------- *)
(* The dependency relation, as declared                                    *)
(* ---------------------------------------------------------------------- *)

\* the names a record's depends declares, read off the record itself
DirectDeps(conf, s) ==
    IF s \in Names
    THEN {conf[s].depends.val[i] : i \in 1..Len(conf[s].depends.val)}
    ELSE {}

RECURSIVE DepsClosure(_, _, _)
DepsClosure(conf, S, n) ==
    IF n = 0 THEN S
    ELSE DepsClosure(conf,
            S \cup UNION {DirectDeps(conf, d) : d \in S}, n - 1)

\* the direct and transitive dependencies of s
TransDeps(conf, s) ==
    DepsClosure(conf, DirectDeps(conf, s), Cardinality(DepNames))

\* the invocations of the start callback of s in a log
StartsOf(l, s) == {i \in 1..Len(l) : l[i].ev = "start" /\ l[i].svc = s}

\* the values map as it was when the latest call began
Before == IF log = <<>> THEN services ELSE log[1].before

Acyclic(conf) == \A s \in Names : s \notin TransDeps(conf, s)

DepsExist(conf) == \A s \in Names : DirectDeps(conf, s) \subseteq Names

\* the configuration of the test: x, y depends on x, sum on x and y
TestConf(conf) ==
    /\ dependsOn(conf, "x") = <<>>
    /\ dependsOn(conf, "y") = <<"x">>
    /\ dependsOn(conf, "sum") = <<"x", "y">>

Running == {k \in Names : services[k] # Null}

\* no start callback invoked by the latest call returned null
NoNullReturn == \A i \in 1..Len(log) : log[i].ev = "start" => log[i].val # Null

IsStartOf(n) == pc = "ready" /\ call.op = "start" /\ call.name = n

IsStopOf(n) == pc = "ready" /\ call.op = "stop" /\ call.name = n

(* ---------------------------------------------------------------------- *)
(* Properties                                                              *)
(* ---------------------------------------------------------------------- *)

\* C1: in every stop() with no name, no service has its stop callback
\* invoked or its value set to null while a service that directly or
\* transitively depends on it still has a non-null value.
C1_StopDependentsFirst ==
    IsStopOf("") =>
        \A i \in 1..Len(log) : \A d \in Names :
            log[i].svc \in TransDeps(config, d) => log[i].before[d] = Null

\* C2: the stored start order stays equal, element by element, to the
\* order computed at construction, whatever calls have been made.
C2_OrderImmutable ==
    pc = "ready" => order = sortDeps(config).sorted

\* C3: start(name) on a service whose value is non-null invokes no start
\* callback of any service and leaves every value unchanged.
C3_StartOfRunningIsNoOp ==
    [][\A n \in Names :
        (pc = "ready" /\ call'.op = "start" /\ call'.name = n
            /\ services[n] # Null)
        => /\ \A i \in 1..Len(log') : log'[i].ev # "start"
           /\ services' = services]_vars

\* C4 as stated: for a start callback that returns without throwing,
\* start(name) twice in a row invokes it exactly once in total and the
\* second call leaves values[name] as the first stored it.
C4_TwiceInvokesOnce ==
    [][\A n \in Names :
        (/\ IsStartOf(n) /\ call' = call
         /\ StartsOf(log, n) # {}
         /\ \A i \in StartsOf(log, n) : ~log[i].threw
         /\ \A i \in StartsOf(log', n) : ~log'[i].threw)
        => /\ Cardinality(StartsOf(log, n))
                + Cardinality(StartsOf(log', n)) = 1
           /\ services'[n] = services[n]]_vars

\* C4, amended: for a start callback that returns a non-null value
\* without throwing, start(name) twice in a row invokes it exactly once in
\* total and the second call leaves values[name] as the first stored it.
C4_TwiceInvokesOnceNonNull ==
    [][\A n \in Names :
        (/\ IsStartOf(n) /\ call' = call
         /\ StartsOf(log, n) # {}
         /\ \A i \in StartsOf(log, n) : ~log[i].threw /\ log[i].val # Null)
        => /\ Cardinality(StartsOf(log, n))
                + Cardinality(StartsOf(log', n)) = 1
           /\ services'[n] = services[n]
           /\ services'[n] # Null]_vars

\* the second of two start(name) in a row: nothing invoked, name running
C4_Witness ==
    \E n \in Names :
        IsStartOf(n) /\ log = <<>> /\ thrown = NoErr /\ services[n] # Null

\* C5 as stated: when no callback throws, start(name) returns with name
\* and every direct and transitive dependency of name running, each
\* holding what its start callback returned.
C5_StartsDependencies ==
    \A n \in Names :
        (IsStartOf(n) /\ thrown = NoErr)
        => \A d \in {n} \cup TransDeps(config, n) :
              /\ services[d] # Null
              /\ \A i \in StartsOf(log, d) : services[d] = log[i].val

\* C5, amended: when no callback throws and no start callback invoked
\* returns null, start(name) returns with name and every direct and
\* transitive dependency of name running, each holding what its start
\* callback returned; starting only sum in the x/y/sum configuration
\* yields x = 1, y = 2, sum = 3.
C5_StartsDependenciesNonNull ==
    \A n \in Names :
        (IsStartOf(n) /\ thrown = NoErr /\ NoNullReturn)
        => /\ \A d \in {n} \cup TransDeps(config, n) :
                /\ services[d] # Null
                /\ \A i \in StartsOf(log, d) : services[d] = log[i].val
           /\ (TestConf(config) /\ n = "sum"
                    /\ \A k \in Names : StartsOf(log, k) # {})
               => services = [x |-> 1, y |-> 2, sum |-> 3]

\* start('sum') alone on the fresh x/y/sum System
C5_Witness ==
    /\ IsStartOf("sum") /\ TestConf(config) /\ thrown = NoErr
    /\ Before = nullifyVals(config)
    /\ services = [x |-> 1, y |-> 2, sum |-> 3]

\* C6 as stated: whenever a start callback is invoked, every direct
\* dependency of its service has a non-null value and the dependency
\* argument maps exactly the direct dependency names to the current values.
C6_DepsRunningAtStart ==
    (pc = "ready" /\ call.op = "start") =>
        \A i \in 1..Len(log) : log[i].ev = "start" =>
            /\ \A d \in DirectDeps(config, log[i].svc) :
                    log[i].before[d] # Null
            /\ log[i].deps =
                    [d \in DirectDeps(config, log[i].svc) |-> log[i].before[d]]

\* C6, amended: whenever a start callback is invoked, every direct
\* dependency of its service either has a non-null value or had its own
\* start callback invoked earlier in the same call and return null, and
\* the dependency argument maps exactly the direct dependency names to the
\* current values.
C6_DepsStartedAtStart ==
    (pc = "ready" /\ call.op = "start") =>
        \A i \in 1..Len(log) : log[i].ev = "start" =>
            /\ \A d \in DirectDeps(config, log[i].svc) :
                    \/ log[i].before[d] # Null
                    \/ \E j \in StartsOf(log, d) :
                          j < i /\ log[j].val = Null /\ ~log[j].threw
            /\ log[i].deps =
                    [d \in DirectDeps(config, log[i].svc) |-> log[i].before[d]]

\* a start callback invoked with two running dependencies, after a stop()
\* has reversed the stored order
C6_Witness ==
    /\ pc = "ready" /\ call.op = "start"
    /\ order # sortDeps(config).sorted
    /\ \E i \in 1..Len(log) :
          /\ log[i].ev = "start"
          /\ Cardinality(DOMAIN log[i].deps) = 2
          /\ \A d \in DOMAIN log[i].deps : log[i].deps[d] # Null

Pos(xs, k) == CHOOSE i \in 1..Len(xs) : xs[i] = k

\* xs holds every key exactly once, each dependency before its dependents
IsStartOrder(conf, xs) ==
    /\ Len(xs) = Len(Keys)
    /\ \A k \in Names : Cardinality({i \in 1..Len(xs) : xs[i] = k}) = 1
    /\ \A k \in Names : \A d \in DirectDeps(conf, k) : Pos(xs, d) < Pos(xs, k)

\* C7: for an acyclic configuration whose depends all name existing
\* services, the order computed at construction holds every service name
\* exactly once and every dependency before every service that depends on
\* it, for the string and the array form of depends alike.
C7_OrderIsTopological ==
    (Acyclic(config) /\ DepsExist(config)) =>
        /\ sortDeps(config).err = "none"
        /\ IsStartOrder(config, sortDeps(config).sorted)
        /\ pc = "ready" => order = sortDeps(config).sorted
        /\ (pc = "failed") => thrown = TypeError

\* a constructed System with a string and an array depends whose order
\* is not the key order
C7_Witness ==
    /\ pc = "ready"
    /\ order # Keys
    /\ \E k \in Names : config[k].depends.kind = "string"
    /\ \E k \in Names :
          config[k].depends.kind = "array" /\ Len(config[k].depends.val) = 2

\* C8: constructing a System from a configuration whose dependency graph
\* has a cycle, of any length, fails with an error before any service
\* state exists: no values map, no accessor, no callback invoked.
C8_CycleFailsConstruction ==
    (pc # "new" /\ ~Acyclic(config)) =>
        /\ pc = "failed"
        /\ thrown # NoErr
        /\ "_services" \notin fields
        /\ services = <<>>
        /\ accessors = {}
        /\ log = <<>>

\* construction has failed on a self-dependency, on a cycle of two and on
\* a cycle of three
C8_Witness ==
    /\ pc = "failed"
    /\ thrown = SortError("cyclic")
    /\ \/ \E k \in Names : k \in DirectDeps(config, k)
       \/ /\ DirectDeps(config, "x") = {"y"}
          /\ DirectDeps(config, "y") = {"sum"}
          /\ DirectDeps(config, "sum") = {"x"}

\* C9 as stated: start() with no name invokes the start callback of exactly
\* the services whose value was null before the call, each exactly once,
\* none for a running service, and leaves every service running.
C9_StartAllStartsTheRest ==
    IsStartOf("") =>
        /\ \A k \in Names :
              Cardinality(StartsOf(log, k)) = IF Before[k] = Null THEN 1 ELSE 0
        /\ Running = Names

\* C9, amended: when every start callback invoked returns a non-null value
\* without throwing, start() with no name invokes the start callback of
\* exactly the services whose value was null before the call, each exactly
\* once, none for a running service, and leaves every service running.
C9_StartAllStartsTheRestNonNull ==
    (IsStartOf("") /\ thrown = NoErr /\ NoNullReturn) =>
        /\ \A k \in Names :
              Cardinality(StartsOf(log, k)) = IF Before[k] = Null THEN 1 ELSE 0
        /\ Running = Names

\* start() after a partial start and a stop(): some services were running,
\* the others were started by the call
C9_Witness ==
    /\ IsStartOf("") /\ thrown = NoErr /\ NoNullReturn
    /\ order # sortDeps(config).sorted
    /\ \E k \in Names : Before[k] # Null
    /\ \E k \in Names : Before[k] = Null /\ StartsOf(log, k) # {}
    /\ Running = Names

\* C10: when no stop callback throws, stop() with no name leaves every
\* service value null, as it was right after construction.
C10_StopAllNullsEverything ==
    (IsStopOf("") /\ thrown = NoErr) => services = nullifyVals(config)

\* stop() on a System with every service running
C10_Witness ==
    /\ IsStopOf("") /\ thrown = NoErr
    /\ \A k \in Names : Before[k] # Null
    /\ services = nullifyVals(config)

\* the start callback invocations of k that returned a non-null value
GoodStartsOf(l, k) ==
    {i \in StartsOf(l, k) : ~l[i].threw /\ l[i].val # Null}

\* the times the value of k went from null to non-null
RisesOf(l, k) ==
    {i \in 1..Len(l) :
        /\ l[i].ev = "set" /\ l[i].svc = k
        /\ l[i].before[k] = Null /\ l[i].val # Null}

\* C11 as stated: a start() on a System whose services are all stopped
\* invokes every start callback exactly once, and the invocations of a
\* start callback that returned a non-null value are as many as the times
\* the value of its service went from null to non-null.
C11_OncePerTransition ==
    /\ (IsStartOf("") /\ Before = nullifyVals(config)) =>
            \A k \in Names : Cardinality(StartsOf(log, k)) = 1
    /\ pc = "ready" =>
            \A k \in Names :
                Cardinality(GoodStartsOf(log, k)) = Cardinality(RisesOf(log, k))

\* C11, amended: when every start callback invoked returns a non-null
\* value without throwing, a start() on a System whose services are all
\* stopped invokes every start callback exactly once; and in every call
\* the invocations of a start callback that returned a non-null value are
\* as many as the times the value of its service went from null to
\* non-null.
C11_OncePerTransitionNonNull ==
    /\ (IsStartOf("") /\ Before = nullifyVals(config)
            /\ thrown = NoErr /\ NoNullReturn) =>
            \A k \in Names : Cardinality(StartsOf(log, k)) = 1
    /\ pc = "ready" =>
            \A k \in Names :
                Cardinality(GoodStartsOf(log, k)) = Cardinality(RisesOf(log, k))

\* start() after a stop() has stopped every service: three invocations
C11_Witness ==
    /\ IsStartOf("") /\ Before = nullifyVals(config)
    /\ order # sortDeps(config).sorted
    /\ thrown = NoErr /\ NoNullReturn
    /\ Cardinality({i \in 1..Len(log) : log[i].ev = "start"}) = 3
    /\ Running = Names

\* C12: when a start callback throws during start(name) or start(), the
\* error reaches the caller unchanged, the value of its service stays
\* null, what the call had started before keeps its value, and the call
\* invokes no further start callback.
C12_StartThrowPropagates ==
    (pc = "ready" /\ call.op = "start") =>
        \A i \in 1..Len(log) : (log[i].ev = "start" /\ log[i].threw) =>
            /\ thrown = CallbackError(log[i].svc)
            /\ services[log[i].svc] = Null
            /\ i = Len(log)
            /\ \A j \in 1..(i - 1) : log[j].ev = "set" =>
                    services[log[j].svc] = log[j].val

\* a start() in which one service was started and the next one threw
C12_Witness ==
    /\ pc = "ready" /\ call.op = "start" /\ thrown # NoErr
    /\ \E j \in 1..Len(log) :
          log[j].ev = "set" /\ log[j].val # Null
            /\ services[log[j].svc] # Null /\ Before[log[j].svc] = Null
    /\ \E k \in Names : StartsOf(log, k) = {} /\ services[k] = Null

\* the services that declare k as a dependency
Dependents(conf, k) == {s \in Names : k \in DirectDeps(conf, s)}

\* C13: stop(name) changes at most values[name], leaves the value of
\* every other service unchanged, dependencies and dependents alike, and
\* invokes no stop callback but that of name.
C13_StopDoesNotCascade ==
    [][\A n \in Names :
        (pc = "ready" /\ call'.op = "stop" /\ call'.name = n) =>
            /\ \A k \in Names \ {n} : services'[k] = services[k]
            /\ \A i \in 1..Len(log') : log'[i].svc = n]_vars

\* stop(name) has stopped a service between a running dependency and a
\* running dependent
C13_Witness ==
    \E n \in Names :
        /\ IsStopOf(n) /\ Before[n] # Null /\ services[n] = Null
        /\ \E d \in DirectDeps(config, n) : services[d] # Null
        /\ \E k \in Dependents(config, n) : services[k] # Null

\* C14: stop(name) on a service whose value is null, and stop() on a System
\* in which no service is running, invoke no callback, raise no error and
\* leave the values as they were, null.
C14_StopOfStoppedIsNoOp ==
    [][/\ \A n \in Names :
            (pc = "ready" /\ call'.op = "stop" /\ call'.name = n
                /\ services[n] = Null)
            => log' = <<>> /\ thrown' = NoErr /\ services' = services
       /\ (pc = "ready" /\ call'.op = "stop" /\ call'.name = ""
                /\ services = nullifyVals(config))
            => log' = <<>> /\ thrown' = NoErr /\ services' = services]_vars

\* stop(name) on a stopped service that has a stop function, next to a
\* running one
C14_Witness ==
    \E n \in Names :
        /\ IsStopOf(n) /\ fns[n].stop /\ log = <<>>
        /\ services[n] = Null /\ Running # {}

\* C15: stop(name) on a running service invokes the registered stop
\* callback exactly once, with the value of the service and the values of
\* its direct dependencies, then nulls values[name] when the callback
\* returns; with no stop callback registered it nulls values[name] and
\* invokes nothing.
C15_StopInvokesThenNulls ==
    \A n \in Names :
        (IsStopOf(n) /\ Before[n] # Null) =>
            LET stops == {i \in 1..Len(log) : log[i].ev = "stop"}
            IN IF fns[n].stop
               THEN /\ stops = {1}
                    /\ log[1].svc = n
                    /\ log[1].val = Before[n]
                    /\ log[1].deps =
                          [d \in DirectDeps(config, n) |-> Before[d]]
                    /\ ~log[1].threw => services[n] = Null
               ELSE /\ stops = {}
                    /\ thrown = NoErr
                    /\ services[n] = Null

\* stop(name) on a running service with no stop function
C15_Witness ==
    \E n \in Names :
        /\ IsStopOf(n) /\ ~fns[n].stop
        /\ Before[n] # Null /\ services[n] = Null

HasFnField(conf) == \E k \in Names : conf[k].fn

\* nothing of the instance has been built and nothing has been called
NothingBuilt ==
    /\ pc = "failed"
    /\ fields \cap {"_order", "_services"} = {}
    /\ order = <<>>
    /\ services = <<>>
    /\ accessors = {}
    /\ log = <<>>

\* C16 as stated: with validate true, construction of a configuration with
\* a function-valued field fails before the order is computed, the values
\* are initialised or a callback is invoked; with validate false the same
\* configuration constructs a System.
C16_FunctionFieldRejected ==
    (pc # "new" /\ HasFnField(config)) =>
        IF call.validate
        THEN thrown = TypeError /\ NothingBuilt
        ELSE pc = "ready"

\* C16, amended: with validate true, construction of a configuration with
\* a function-valued field fails before the order is computed, the values
\* are initialised or a callback is invoked; with validate false the same
\* configuration constructs a System when its dependency graph is acyclic
\* and its depends name existing services only.
C16_FunctionFieldRejectedIfChecked ==
    (pc # "new" /\ HasFnField(config)) =>
        IF call.validate
        THEN thrown = TypeError /\ NothingBuilt
        ELSE (Acyclic(config) /\ DepsExist(config)) => pc = "ready"

\* a configuration that would sort, rejected for its function-valued field
C16_Witness ==
    /\ pc = "failed" /\ call.validate /\ HasFnField(config)
    /\ Acyclic(config) /\ DepsExist(config)
    /\ thrown = TypeError

\* C17: right after construction every configured service has the value
\* null, in the values map and through its getter, and in every later
\* state the getter of a name returns the current values entry of it.
C17_GettersReadValues ==
    pc = "ready" =>
        /\ accessors = Names
        /\ DOMAIN services = Names
        /\ \A k \in Names : getter(config, services, k) = services[k]
        /\ call.op = "new" =>
              \A k \in Names :
                  services[k] = Null /\ getter(config, services, k) = Null

\* a getter that returns a started value
C17_Witness ==
    /\ pc = "ready" /\ call.op = "start"
    /\ \E k \in accessors : getter(config, services, k) = 3

\* the names among the pieces of a string, in the order they appear
NamesIn(str) == SelectSeq(str, LAMBDA piece : piece \in Names)

\* C18: toString() lists exactly the services whose value is non-null, in
\* configuration key order whatever the order they were started in, and
\* gives the form without a name list when no service is running.
C18_ToStringListsRunning ==
    pc = "ready" =>
        LET str == toString(services)
            names == NamesIn(str)
        IN /\ {names[i] : i \in 1..Len(names)} = Running
           /\ \A i, j \in 1..Len(names) :
                 i < j => Pos(Keys, names[i]) < Pos(Keys, names[j])
           /\ Running = {} => str = <<"[object System", "]">>
           /\ Running = Names =>
                 str = <<"[object System", "{", "x", ", ", "y", ", ", "sum",
                         "}", "]">>
           /\ Running # {} =>
                 /\ Len(str) = 2 * Cardinality(Running) + 3
                 /\ str[2] = "{" /\ str[Len(str) - 1] = "}"

\* two services running that were started against the key order
C18_Witness ==
    /\ pc = "ready" /\ call.op = "start"
    /\ Cardinality(Running) = 2
    /\ \E i, j \in 1..Len(log) :
          /\ i < j /\ log[i].ev = "start" /\ log[j].ev = "start"
          /\ Pos(Keys, log[i].svc) > Pos(Keys, log[j].svc)
          /\ {log[i].svc, log[j].svc} = Running

\* the services the latest call has an entry for in its log
Visited == {log[i].svc : i \in 1..Len(log)}

\* C19: when a stop callback throws during stop(name), the error reaches
\* the caller unchanged and values[name] keeps its non-null value; inside
\* stop() the services not yet visited keep their values as well.
C19_StopThrowKeepsValue ==
    (pc = "ready" /\ call.op = "stop") =>
        \A i \in 1..Len(log) : (log[i].ev = "stop" /\ log[i].threw) =>
            /\ thrown = CallbackError(log[i].svc)
            /\ i = Len(log)
            /\ services[log[i].svc] = log[i].val
            /\ services[log[i].svc] # Null
            /\ \A k \in Names \ Visited : services[k] = Before[k]

\* a stop() that stopped one service, threw at the next and left a third,
\* running, unvisited
C19_Witness ==
    /\ IsStopOf("") /\ thrown # NoErr
    /\ \E i \in 1..Len(log) : log[i].ev = "set"
    /\ \E k \in Names \ Visited : services[k] # Null

\* C20: a service counts as running exactly when its stored value is not
\* null, for start, stop and toString alike: a start callback that returns
\* null leaves its service stopped, start reaches the start callback of a
\* stopped service again and never that of a running one, stop invokes the
\* stop callback of a running service only, and toString lists the running
\* services only.
C20_RunningIffNotNull ==
    [][/\ \A i \in 1..Len(log') :
            (log'[i].ev = "start" /\ ~log'[i].threw /\ log'[i].val = Null)
            => services'[log'[i].svc] = Null
       /\ \A n \in Names :
            (pc = "ready" /\ call'.op = "start" /\ call'.name \in {n, ""}) =>
                IF services[n] = Null
                THEN StartsOf(log', n) # {} \/ thrown' # NoErr
                ELSE StartsOf(log', n) = {}
       /\ \A n \in Names :
            (pc = "ready" /\ call'.op = "stop" /\ call'.name = n) =>
                ({i \in 1..Len(log') : log'[i].ev = "stop"} # {}
                    <=> (services[n] # Null /\ fns[n].stop))
       /\ LET listed == NamesIn(toString(services'))
          IN {listed[i] : i \in 1..Len(listed)}
                = {n \in Names : services'[n] # Null}]_vars

\* a service whose start callback returned null: stopped after the call
C20_Witness ==
    \E n \in Names :
        /\ IsStartOf(n) /\ thrown = NoErr
        /\ \E i \in StartsOf(log, n) : log[i].val = Null
        /\ services[n] = Null
        /\ Running # {}

====
